---- MODULE Spec2Model ----
(***************************************************************************)
(* RegulationCoder: the hash-chained audit log (audit/logger.py,           *)
(* audit/chain.py) and the compliance evaluator (core/engine.py).          *)
(*                                                                         *)
(* Representation choices                                                  *)
(*  - A SHA-256 digest is identified with its pre-image: the tuple of the  *)
(*    five parts joined by "|" (collision freedom).  The genesis sentinel  *)
(*    "0" * 64 is the 1-tuple carrying that literal, the empty string      *)
(*    default of AuditEntry.entry_hash is the empty tuple.                 *)
(*  - An ISO-8601 text is the triple <<date-time, fraction digits, UTC     *)
(*    offset>>; the fraction is "" when Python / Pydantic omit it.         *)
(*  - A Python value is a record [t |-> type, v |-> text]; a JSON value    *)
(*    (in a file line, or in the text json.dumps produces) is a pair       *)
(*    <<kind, text>>.                                                      *)
(***************************************************************************)
EXTENDS Integers, Sequences, FiniteSets, TLC

VARIABLES
    file,       \* audit.jsonl: the sequence of persisted lines
    opened,     \* the AuditLogger instances constructed so far
    prevHash,   \* AuditLogger._previous_hash of every instance
    nextUuid,   \* number of uuid4 values drawn so far
    calls,      \* history: the entries log() returned, with the instance
    tamper,     \* what an outside party did to the file, if anything
    orig,       \* the file as it was before the tampering
    rules,      \* ComplianceEngine._rules
    report,     \* what the last evaluate() call produced
    exists,     \* does audit.jsonl exist in the log directory
    engine,     \* what the last ComplianceEngine(regulation=...) call produced
    profile,    \* the profile mapping handed to _resolve_field
    resolved,   \* history: the _resolve_field calls made, with their results
    inflight,   \* the log() call each thread is in, and how far it got
    torn,       \* does audit.jsonl end with a line that has no newline
    outcome,    \* what the last log() call did: returned, or raised
    pipeline,   \* run_full_pipeline: the stage it is in, and how far
    api         \* the API process: its clock, its report store, its responses

vars ==
    <<file, opened, prevHash, nextUuid, calls, tamper, orig, rules, report,
      exists, engine, profile, resolved, inflight, torn, outcome, pipeline, api>>

(***************************************************************************)
(* Bounds                                                                  *)
(***************************************************************************)
MaxEntries == 3
MaxPassing == 9
MaxTail == 2
MaxSegments == 3
MaxFailures == 2
MaxEvaluations == 3
MaxSeconds == 2

Loggers == {"L1", "L2"}

\* the threads that call log() on one AuditLogger
Threads == {"T1", "T2"}

(***************************************************************************)
(* models/audit_entry.py                                                   *)
(***************************************************************************)
AuditAction ==
    {"ingest", "parse", "extract", "formalize", "codegen", "judge",
     "evaluate", "diff", "export"}

_GENESIS_HASH == <<"0000000000000000000000000000000000000000000000000000000000000000">>

EmptyStr == <<>>

(***************************************************************************)
(* datetime.now(timezone.utc): the wall clock at whole seconds or not      *)
(***************************************************************************)
Clock ==
    { [sec |-> "2024-01-01T00:00:00", us |-> u, tz |-> "UTC"] :
        u \in {"000000", "123456"} }

\* datetime.isoformat() of an aware UTC datetime: no fraction when the
\* microsecond is 0, offset written +00:00
isoformat(dt) ==
    <<dt.sec, IF dt.us = "000000" THEN "" ELSE dt.us, "+00:00">>

_normalize_timestamp(dt) ==
    LET iso == isoformat(dt)
    IN  IF iso[3] = "+00:00" THEN <<iso[1], iso[2], "Z">> ELSE iso

\* Pydantic v2 JSON form of a datetime: fraction only when non-zero, Z for UTC
PydanticDatetimeJson(dt) ==
    <<dt.sec, IF dt.us = "000000" THEN "" ELSE dt.us,
      IF dt.tz = "UTC" THEN "Z" ELSE "">>

\* Pydantic v2 parsing of a timestamp text: Z and +00:00 both give UTC
TimestampParses(w) == w[3] \in {"Z", "+00:00"}

PydanticParseDatetime(w) ==
    [sec |-> w[1], us |-> IF w[2] = "" THEN "000000" ELSE w[2], tz |-> "UTC"]

(***************************************************************************)
(* Python values of a details mapping and their two JSON renderings        *)
(***************************************************************************)
\* str(datetime(2024, 1, 1)) separates date and time by a blank,
\* Pydantic (and isoformat) by "T"
PyStr(v) ==
    IF v.t = "datetime"
    THEN (CASE v.v = "2024-01-01T00:00:00" -> "2024-01-01 00:00:00"
            [] OTHER -> v.v)
    ELSE v.v

\* json.dumps(value, default=str) of one value
JsonDumpsValue(v) ==
    CASE v.t = "int" -> <<"num", v.v>>
      [] v.t = "str" -> <<"str", v.v>>
      [] OTHER       -> <<"str", PyStr(v)>>

\* json.dumps(details, sort_keys=True, default=str); a mapping is a
\* function, so the key order is already canonical
JsonDumpsDict(d) == [k \in DOMAIN d |-> JsonDumpsValue(d[k])]

\* json.dumps(target_ids, sort_keys=True)
JsonDumpsList(l) == [i \in DOMAIN l |-> <<"str", l[i]>>]

\* model_dump_json of a value typed Any: the type is inferred at run time
PydanticAnyJson(v) ==
    CASE v.t = "int" -> <<"num", v.v>>
      [] v.t = "str" -> <<"str", v.v>>
      [] OTHER       -> <<"str", v.v>>

\* json.loads / model_validate_json of one JSON value
JsonLoadsValue(j) ==
    IF j[1] = "num" THEN [t |-> "int", v |-> j[2]] ELSE [t |-> "str", v |-> j[2]]

(***************************************************************************)
(* AuditLogger._compute_hash and AuditChainVerifier._compute_hash          *)
(***************************************************************************)
_compute_hash(previous_hash, timestamp_iso, action, target_ids, details) ==
    <<previous_hash, timestamp_iso, action,
      JsonDumpsList(target_ids), JsonDumpsDict(details)>>

(***************************************************************************)
(* AuditEntry <-> file line.  A line is the record of the members of its   *)
(* JSON object; a line that is not an object is a record with the one      *)
(* field json.                                                             *)
(***************************************************************************)
\* a line json.loads rejects, and one it accepts that is not an object
InvalidJson == [json |-> "invalid"]
NonObject == [json |-> "array"]

IsObject(line) == "json" \notin DOMAIN line
IsInvalidJson(line) == ~IsObject(line) /\ line.json = "invalid"

\* dict.get(key, default) on the object of a line
Get(line, key, default) == IF key \in DOMAIN line THEN line[key] ELSE default

\* a JSON number where the entry has a string
JsonNumber == <<"num", "7">>

IsJsonNum(v) == Len(v) = 2 /\ v[1] = "num"

\* an exception leaving the function
Raised(exc) == [kind |-> "raise", value |-> exc]

model_dump_json(e) ==
    [id            |-> e.id,
     timestamp     |-> PydanticDatetimeJson(e.timestamp),
     action        |-> e.action,
     stage         |-> e.stage,
     actor         |-> e.actor,
     target_ids    |-> [i \in DOMAIN e.target_ids |-> <<"str", e.target_ids[i]>>],
     input_hash    |-> e.input_hash,
     output_hash   |-> e.output_hash,
     previous_hash |-> e.previous_hash,
     entry_hash    |-> e.entry_hash,
     details       |-> [k \in DOMAIN e.details |-> PydanticAnyJson(e.details[k])],
     model_used    |-> e.model_used,
     verdict       |-> e.verdict]

\* does AuditEntry.model_validate_json accept the line: an object with the
\* required members id, action and stage, each member of its declared type
LineValidates(line) ==
    /\ IsObject(line)
    /\ {"id", "action", "stage"} \subseteq DOMAIN line
    /\ ~IsJsonNum(Get(line, "previous_hash", EmptyStr))
    /\ ~IsJsonNum(Get(line, "entry_hash", EmptyStr))
    /\ line.action \in AuditAction
    /\ TimestampParses(line.timestamp)
    /\ \A i \in DOMAIN line.target_ids : line.target_ids[i][1] = "str"

model_validate_json(line) ==
    [id            |-> line.id,
     timestamp     |-> PydanticParseDatetime(line.timestamp),
     action        |-> line.action,
     stage         |-> line.stage,
     actor         |-> line.actor,
     target_ids    |-> [i \in DOMAIN line.target_ids |-> line.target_ids[i][2]],
     input_hash    |-> line.input_hash,
     output_hash   |-> line.output_hash,
     previous_hash |-> Get(line, "previous_hash", EmptyStr),
     entry_hash    |-> Get(line, "entry_hash", EmptyStr),
     details       |-> LET d == Get(line, "details", <<>>)
                       IN  [k \in DOMAIN d |-> JsonLoadsValue(d[k])],
     model_used    |-> line.model_used,
     verdict       |-> line.verdict]

(***************************************************************************)
(* AuditLogger.load_from_file, _read_last_hash                             *)
(***************************************************************************)
\* lines 201-204: the except clause logs a warning and the loop goes on with
\* the next line (nothing more would be read, were the loop left there)
StopAtMalformed(rest) == <<>>

SkipMalformed(rest) == rest

\* a file that does not exist has no line: lines 195-196 return the empty list
RECURSIVE load_from_file(_)
load_from_file(f) ==
    IF f = <<>> THEN <<>>
    ELSE LET rest == load_from_file(Tail(f))
         IN  IF LineValidates(Head(f))
             THEN <<model_validate_json(Head(f))>> \o rest
             ELSE SkipMalformed(rest)

\* lines 160-174: genesis for no file, no line, or a last line json.loads
\* rejects; data.get on a last line that is not an object is an
\* AttributeError, which the except clause of line 172 does not name
_read_last_hash(f) ==
    IF f = <<>> THEN _GENESIS_HASH
    ELSE LET last == f[Len(f)]
         IN  CASE IsInvalidJson(last) -> _GENESIS_HASH
               [] IsObject(last)      -> Get(last, "entry_hash", _GENESIS_HASH)
               [] OTHER               -> Raised("AttributeError")

(***************************************************************************)
(* AuditLogger.verify_chain: the errors in the order the code appends them *)
(***************************************************************************)
ExpectedHash(entry) ==
    _compute_hash(entry.previous_hash, _normalize_timestamp(entry.timestamp),
                  entry.action, entry.target_ids, entry.details)

\* the hash against which entry i's previous_hash is compared: the stored
\* entry_hash of the entry before (lines 251-252), not a recomputed one
LinkToRecomputed(entries, i) == ExpectedHash(entries[i - 1])

LinkTarget(entries, i) == entries[i - 1].entry_hash

\* lines 238-256 (a broken link would go unseen, were only the hashes
\* recomputed)
EntryErrorsHashOnly(entries, i) ==
    IF entries[i].entry_hash /= ExpectedHash(entries[i])
    THEN <<[kind |-> "hash_mismatch", id |-> entries[i].id]>> ELSE <<>>

EntryErrors(entries, i) ==
    (IF entries[i].entry_hash /= ExpectedHash(entries[i])
     THEN <<[kind |-> "hash_mismatch", id |-> entries[i].id]>> ELSE <<>>)
    \o
    (IF i > 1 /\ entries[i].previous_hash /= LinkTarget(entries, i)
     THEN <<[kind |-> "chain_broken", id |-> entries[i].id]>> ELSE <<>>)

RECURSIVE ScanErrors(_, _)
ScanErrors(entries, i) ==
    IF i > Len(entries) THEN <<>>
    ELSE EntryErrors(entries, i) \o ScanErrors(entries, i + 1)

verify_chain(entries) ==
    IF entries = <<>> THEN [is_valid |-> TRUE, errors |-> <<>>]
    ELSE LET errors ==
                 (IF entries[1].previous_hash /= _GENESIS_HASH
                  THEN <<[kind |-> "not_genesis", id |-> entries[1].id]>>
                  ELSE <<>>)
                 \o ScanErrors(entries, 1)
         IN  [is_valid |-> errors = <<>>, errors |-> errors]

(***************************************************************************)
(* AuditChainVerifier.verify on the raw lines of an existing file          *)
(***************************************************************************)
\* lines 73-75: the three members read with a default
StoredId(f, idx) == Get(f[idx], "id", 0 - idx)
StoredPrevious(line) == Get(line, "previous_hash", EmptyStr)
StoredHash(line) == Get(line, "entry_hash", EmptyStr)

RawComputed(line) ==
    LET details == Get(line, "details", <<>>)
    IN  <<StoredPrevious(line), line.timestamp, line.action, line.target_ids,
          JsonDumpsDict([k \in DOMAIN details |-> JsonLoadsValue(details[k])])>>

\* Python's != between two values each a string or a number
PyNe(a, b) ==
    IF IsJsonNum(a) \/ IsJsonNum(b)
    THEN ~(IsJsonNum(a) /\ IsJsonNum(b) /\ a = b)
    ELSE a /= b

\* lines 87-109: "|".join of a number, or the slice stored_hash[:16] of a
\* number, is a TypeError the except clause turns into an error of the entry
RecomputeFails(line) ==
    \/ IsJsonNum(StoredPrevious(line))
    \/ IsJsonNum(StoredHash(line))

RawErrors(f, idx, expected_previous) ==
    (IF PyNe(StoredPrevious(f[idx]), expected_previous)
     THEN <<[kind |-> "previous_hash_mismatch", id |-> StoredId(f, idx)]>> ELSE <<>>)
    \o
    (IF RecomputeFails(f[idx])
     THEN <<[kind |-> "recompute_failed", id |-> StoredId(f, idx)]>>
     ELSE IF RawComputed(f[idx]) /= StoredHash(f[idx])
     THEN <<[kind |-> "entry_hash_mismatch", id |-> StoredId(f, idx)]>> ELSE <<>>)

\* what leaves the loop body outside its try: entry.get on a value that is
\* not a dict (lines 73-75), and the slices [:16] of the message of lines
\* 78-83 when a hash is not a string
RawRaises(f, idx, expected_previous) ==
    CASE ~IsObject(f[idx]) -> "AttributeError"
      [] /\ IsObject(f[idx])
         /\ PyNe(StoredPrevious(f[idx]), expected_previous)
         /\ (IsJsonNum(StoredPrevious(f[idx])) \/ IsJsonNum(expected_previous))
           -> "TypeError"
      [] OTHER -> ""

RECURSIVE RawScan(_, _, _)
RawScan(f, idx, expected_previous) ==
    IF idx > Len(f) THEN [raised |-> "", errors |-> <<>>]
    ELSE IF RawRaises(f, idx, expected_previous) /= ""
    THEN [raised |-> RawRaises(f, idx, expected_previous), errors |-> <<>>]
    ELSE LET rest == RawScan(f, idx + 1, StoredHash(f[idx]))
         IN  [raised |-> rest.raised,
              errors |-> RawErrors(f, idx, expected_previous) \o rest.errors]

\* lines 56-68: the lines json.loads rejects, by line number
JsonErrors(f) ==
    LET bad == SelectSeq([i \in DOMAIN f |-> i], LAMBDA i : IsInvalidJson(f[i]))
    IN  [k \in DOMAIN bad |-> [kind |-> "invalid_json", id |-> bad[k]]]

\* lines 50-123, the file being there
verify(f) ==
    IF f = <<>> THEN [is_valid |-> TRUE, errors |-> <<>>]
    ELSE IF JsonErrors(f) /= <<>> THEN [is_valid |-> FALSE, errors |-> JsonErrors(f)]
    ELSE LET scan == RawScan(f, 1, _GENESIS_HASH)
         IN  IF scan.raised /= "" THEN Raised(scan.raised)
             ELSE [is_valid |-> scan.errors = <<>>, errors |-> scan.errors]

\* lines 43-123: verify(log_dir), the file there or not
AuditChainVerifier_verify(ex, f) ==
    IF ~ex
    THEN [is_valid |-> FALSE, errors |-> <<[kind |-> "file_not_found", id |-> 0]>>]
    ELSE verify(f)

\* api/routers/audit.py, GET /api/audit/verify: the logger is constructed
\* and the file loaded inside try / except Exception, which catches the
\* AttributeError of _read_last_hash on a last line that is not an object
verify_audit_chain(ex, f) ==
    IF f /= <<>> /\ ~IsObject(f[Len(f)]) /\ ~IsInvalidJson(f[Len(f)])
    THEN [is_valid |-> FALSE, errors |-> <<[kind |-> "load_failed", id |-> 0]>>]
    ELSE IF load_from_file(f) = <<>>
    THEN [is_valid |-> TRUE, errors |-> <<>>]
    ELSE verify_chain(load_from_file(f))

(***************************************************************************)
(* What callers pass to log()                                              *)
(***************************************************************************)
NoDetails == [k \in {} |-> [t |-> "int", v |-> "0"]]

LogInputs ==
    { [action |-> "ingest", stage |-> "ingestion",
       target_ids |-> <<"file1.pdf">>,
       details |-> [k \in {"length"} |-> [t |-> "int", v |-> "1000"]]],
      [action |-> "parse", stage |-> "parsing",
       target_ids |-> <<"clause1", "clause2">>,
       details |-> [k \in {"count"} |-> [t |-> "int", v |-> "2"]]],
      [action |-> "extract", stage |-> "s3",
       target_ids |-> <<>>,
       details |-> NoDetails],
      [action |-> "export", stage |-> "export",
       target_ids |-> <<"report">>,
       details |-> [k \in {"generated_at"} |->
                       [t |-> "datetime", v |-> "2024-01-01T00:00:00"]]] }

\* the inputs whose details hold JSON-native values only
JsonNativeInputs ==
    { inp \in LogInputs :
        \A k \in DOMAIN inp.details : inp.details[k].t \in {"int", "str"} }

(***************************************************************************)
(* AuditLogger.__init__ and AuditLogger.log                                *)
(***************************************************************************)
\* line 104: the in-memory pointer after an append is the new entry's hash
\* (it would stay where it was, were the assignment missing)
AdvanceStalePointer(old, entry_hash) == old

AdvancePointer(old, entry_hash) == entry_hash

NewEntry(id, now, inp, previous_hash) ==
    [id            |-> id,
     timestamp     |-> now,
     action        |-> inp.action,
     stage         |-> inp.stage,
     actor         |-> "system",
     target_ids    |-> inp.target_ids,
     input_hash    |-> "",
     output_hash   |-> "",
     previous_hash |-> previous_hash,
     entry_hash    |-> _compute_hash(previous_hash, _normalize_timestamp(now),
                                     inp.action, inp.target_ids, inp.details),
     details       |-> inp.details,
     model_used    |-> "",
     verdict       |-> ""]

Untampered == [kind |-> "none", idx |-> 0, field |-> ""]

Construct(l) ==
    /\ l \notin opened
    /\ tamper = Untampered
    /\ opened' = opened \cup {l}
    /\ prevHash' = [prevHash EXCEPT ![l] = _read_last_hash(file)]
    /\ UNCHANGED <<file, nextUuid, calls, tamper, orig, rules, report,
                   exists, engine, profile, resolved,
                   inflight, torn, outcome, pipeline, api>>

\* lines 153-156: open(..., "a") and fh.write(line + "\n").  The text goes
\* where the file ends: after a line that has no newline it runs on in that
\* line, which no longer parses
_append(f, unterminated, line) ==
    IF unterminated THEN [f EXCEPT ![Len(f)] = InvalidJson] ELSE Append(f, line)

\* what the last log() call did, with the pointer and the number of entries
\* returned before it
Outcome(kind, l) ==
    [kind |-> kind, after |-> outcome.kind, pointer |-> prevHash[l],
     returned |-> Len(calls)]

\* lines 40-112, whoever the caller is
LogCall(l, inp, now) ==
    /\ l \in opened
    /\ tamper = Untampered
    /\ LET entry == NewEntry(nextUuid + 1, now, inp, prevHash[l])
       IN  /\ file' = _append(file, torn, model_dump_json(entry))
           /\ prevHash' = [prevHash EXCEPT
                             ![l] = AdvancePointer(prevHash[l], entry.entry_hash)]
           /\ calls' = Append(calls, [logger |-> l, entry |-> entry])
    /\ nextUuid' = nextUuid + 1
    /\ exists' = TRUE
    /\ torn' = FALSE
    /\ outcome' = Outcome("returned", l)
    /\ UNCHANGED <<opened, tamper, orig, rules, report, engine, profile, resolved,
                   inflight, api>>

Log(l, inp, now) ==
    /\ Len(file) < MaxEntries
    /\ LogCall(l, inp, now)
    /\ UNCHANGED pipeline

\* how far a failing append got: open() raised, write raised with nothing
\* on disk, or with the beginning of the line on disk
Written == {"unopened", "nothing", "fragment"}

AppendFailure(f, unterminated, written) ==
    IF written = "fragment" THEN _append(f, unterminated, InvalidJson) ELSE f

\* lines 103-104: self._append(entry) raises, so the assignment after it is
\* not reached (the pointer would name an entry that is not in the file,
\* were it assigned before the append)
PointerAssignedFirst(old, entry_hash) == entry_hash

PointerOnFailure(old, entry_hash) == old

\* log() when _append raises OSError: lines 85-102 have run, the exception
\* leaves log() and no entry is returned
LogCallFails(l, inp, now, written) ==
    /\ l \in opened
    /\ tamper = Untampered
    /\ LET entry == NewEntry(nextUuid + 1, now, inp, prevHash[l])
       IN  prevHash' = [prevHash EXCEPT
                          ![l] = PointerOnFailure(prevHash[l], entry.entry_hash)]
    /\ file' = AppendFailure(file, torn, written)
    /\ torn' = (torn \/ written = "fragment")
    /\ exists' = (exists \/ written /= "unopened")
    /\ nextUuid' = nextUuid + 1
    /\ outcome' = Outcome("raised", l)
    /\ UNCHANGED <<opened, calls, tamper, orig, rules, report, engine, profile,
                   resolved, inflight, api>>

LogFails(l, inp, now, written) ==
    /\ Len(file) < MaxEntries
    /\ nextUuid - Len(calls) < MaxFailures
    /\ LogCallFails(l, inp, now, written)
    /\ UNCHANGED pipeline

(***************************************************************************)
(* PipelineOrchestrator.run_full_pipeline: five stages, each doing its     *)
(* work and then logging what the work produced.  The work itself (PDF     *)
(* processing, segmenting, the LLM calls and the judge gates) is the       *)
(* number of artefacts it produced, or an exception.                       *)
(***************************************************************************)
Stages ==
    << [action |-> "ingest",    stage |-> "ingestion",     key |-> "length"],
       [action |-> "parse",     stage |-> "parsing",       key |-> "clause_count"],
       [action |-> "extract",   stage |-> "extraction",    key |-> "requirement_count"],
       [action |-> "formalize", stage |-> "formalization", key |-> "rule_count"],
       [action |-> "codegen",   stage |-> "codegen",       key |-> "generated_count"] >>

\* what a stage's work may produce: no artefact, one, two
Produced == {0, 1, 2}

IntText(n) == <<"0", "1", "2">>[n + 1]

\* the arguments of the stage's self.audit.log(...) call: the ids of the
\* artefacts produced (the file path for ingestion) and their number (the
\* judge gate blocking none of them)
StageInput(k, n) ==
    [action |-> Stages[k].action,
     stage |-> Stages[k].stage,
     target_ids |-> IF k = 1 THEN <<"file1.pdf">> ELSE SubSeq(<<"id1", "id2">>, 1, n),
     details |->
         CASE k = 1 -> [key \in {"file", "length"} |->
                          IF key = "file" THEN [t |-> "str", v |-> "file1.pdf"]
                          ELSE [t |-> "int", v |-> IntText(n)]]
           [] k = 3 -> [key \in {"requirement_count", "blocked_count"} |->
                          IF key = "blocked_count" THEN [t |-> "int", v |-> IntText(0)]
                          ELSE [t |-> "int", v |-> IntText(n)]]
           [] OTHER -> [key \in {Stages[k].key} |-> [t |-> "int", v |-> IntText(n)]]]

\* lines 213-234: the five calls in a row, no try around any of them: an
\* exception in a stage leaves run_full_pipeline (the next stage would
\* run, were the exception caught and the stage skipped)
StageErrorSkipsStage(pl) == [pl EXCEPT !.stage = @ + 1, !.worked = FALSE]

StageError(pl) == [pl EXCEPT !.state = "raised"]

\* the stage's log() call has returned: the next stage, or the return
StageDone(pl) ==
    IF pl.stage = Len(Stages)
    THEN [pl EXCEPT !.state = "returned", !.worked = FALSE]
    ELSE [pl EXCEPT !.stage = @ + 1, !.worked = FALSE]

RunFullPipeline ==
    /\ pipeline.state = "idle"
    /\ pipeline' = [pipeline EXCEPT !.state = "running"]
    /\ UNCHANGED <<file, opened, prevHash, nextUuid, calls, tamper, orig, rules,
                   report, exists, engine, profile, resolved, inflight, torn,
                   outcome, api>>

\* the statements of run_<stage> before its self.audit.log(...) call
StageWork(n) ==
    /\ pipeline.state = "running"
    /\ pipeline.stage <= Len(Stages)
    /\ ~pipeline.worked
    /\ pipeline' = [pipeline EXCEPT !.worked = TRUE, !.results = Append(@, n)]
    /\ UNCHANGED <<file, opened, prevHash, nextUuid, calls, tamper, orig, rules,
                   report, exists, engine, profile, resolved, inflight, torn,
                   outcome, api>>

StageRaises ==
    /\ pipeline.state = "running"
    /\ pipeline.stage <= Len(Stages)
    /\ ~pipeline.worked
    /\ pipeline' = StageError(pipeline)
    /\ UNCHANGED <<file, opened, prevHash, nextUuid, calls, tamper, orig, rules,
                   report, exists, engine, profile, resolved, inflight, torn,
                   outcome, api>>

\* the stage's self.audit.log(...) call, and the return of run_<stage>
StageLog(now) ==
    /\ pipeline.state = "running"
    /\ pipeline.stage <= Len(Stages)
    /\ pipeline.worked
    /\ LogCall("L1", StageInput(pipeline.stage, pipeline.results[pipeline.stage]), now)
    /\ pipeline' = StageDone(pipeline)

\* the stage's self.audit.log(...) call raises: so does the stage
StageLogFails(now, written) ==
    /\ pipeline.state = "running"
    /\ pipeline.stage <= Len(Stages)
    /\ pipeline.worked
    /\ LogCallFails("L1", StageInput(pipeline.stage, pipeline.results[pipeline.stage]),
                    now, written)
    /\ pipeline' = StageError(pipeline)

\* no log() call under way, no append has failed, no pipeline run, no request
NoCall == [pc |-> "idle"]

NoOutcome == [kind |-> "none", after |-> "none", pointer |-> EmptyStr, returned |-> 0]

NoPipeline == [state |-> "idle", stage |-> 1, worked |-> FALSE, results |-> <<>>]

NoApi == [clock |-> 0, store |-> <<>>, responses |-> <<>>]

Quiet ==
    /\ inflight = [t \in Threads |-> NoCall]
    /\ torn = FALSE
    /\ outcome = NoOutcome
    /\ pipeline = NoPipeline
    /\ api = NoApi

(***************************************************************************)
(* log() called by several threads on one AuditLogger, nothing serializing *)
(* the calls: a thread may be switched out between any two statements, so  *)
(* each read of self._previous_hash, the append and the assignment are     *)
(* steps of their own                                                      *)
(***************************************************************************)
Unwritten == { t \in Threads : inflight[t].pc \in {"hashed", "built"} }

\* lines 83-93: now, and the hash over self._previous_hash as read on line 87
LogHash(t, l, inp, now) ==
    /\ l \in opened
    /\ tamper = Untampered
    /\ inflight[t].pc = "idle"
    /\ Len(file) + Cardinality(Unwritten) < MaxEntries
    /\ inflight' = [inflight EXCEPT ![t] =
           [pc |-> "hashed", inp |-> inp, now |-> now,
            entry_hash |-> _compute_hash(prevHash[l], _normalize_timestamp(now),
                                         inp.action, inp.target_ids, inp.details)]]
    /\ UNCHANGED <<file, opened, prevHash, nextUuid, calls, tamper, orig, rules,
                   report, exists, engine, profile, resolved, torn, outcome,
                   pipeline, api>>

\* lines 95-101: the entry, with self._previous_hash as read on line 100
LogBuild(t, l) ==
    /\ inflight[t].pc = "hashed"
    /\ LET call == inflight[t]
           entry == [NewEntry(nextUuid + 1, call.now, call.inp, prevHash[l])
                       EXCEPT !.entry_hash = call.entry_hash]
       IN  inflight' = [inflight EXCEPT ![t] = [pc |-> "built", entry |-> entry]]
    /\ nextUuid' = nextUuid + 1
    /\ UNCHANGED <<file, opened, prevHash, calls, tamper, orig, rules, report,
                   exists, engine, profile, resolved, torn, outcome, pipeline, api>>

\* line 103
LogAppend(t) ==
    /\ inflight[t].pc = "built"
    /\ file' = _append(file, torn, model_dump_json(inflight[t].entry))
    /\ exists' = TRUE
    /\ torn' = FALSE
    /\ inflight' = [inflight EXCEPT ![t].pc = "appended"]
    /\ UNCHANGED <<opened, prevHash, nextUuid, calls, tamper, orig, rules, report,
                   engine, profile, resolved, outcome, pipeline, api>>

\* lines 104-112: the pointer assigned, the entry returned
LogReturn(t, l) ==
    /\ inflight[t].pc = "appended"
    /\ prevHash' = [prevHash EXCEPT
                      ![l] = AdvancePointer(prevHash[l], inflight[t].entry.entry_hash)]
    /\ calls' = Append(calls, [logger |-> l, entry |-> inflight[t].entry])
    /\ outcome' = Outcome("returned", l)
    /\ inflight' = [inflight EXCEPT ![t] = NoCall]
    /\ UNCHANGED <<file, opened, nextUuid, tamper, orig, rules, report, exists,
                   engine, profile, resolved, torn, pipeline, api>>

(***************************************************************************)
(* An outside party edits audit.jsonl: one field of one line overwritten   *)
(* (hashes not recomputed), one line removed, or the lines reordered       *)
(***************************************************************************)
FieldNames ==
    {"id", "timestamp", "action", "stage", "actor", "target_ids", "input_hash",
     "output_hash", "previous_hash", "entry_hash", "details", "model_used",
     "verdict"}

OverwriteValues(field, line) ==
    CASE field = "id"         -> {0}
      [] field = "timestamp"  ->
             {<<line.timestamp[1], line.timestamp[2], "+00:00">>,
              <<"2024-01-02T00:00:00", line.timestamp[2], line.timestamp[3]>>}
      [] field = "action"     -> {"judge", "bogus"}
      [] field = "stage"      -> {"tampered"}
      [] field = "actor"      -> {"mallory"}
      [] field = "target_ids" -> {<<>>, <<<<"str", "other">>>>}
      [] field = "details"    ->
             {[k \in {} |-> <<"num", "0">>],
              [k \in {"length"} |-> <<"num", "9999">>]}
      [] field \in {"previous_hash", "entry_hash"} -> {EmptyStr, _GENESIS_HASH}
      [] OTHER                -> {"x"}

OverwriteField(i, field, value) ==
    /\ tamper = Untampered
    /\ i \in DOMAIN file
    /\ value /= file[i][field]
    /\ file' = [file EXCEPT ![i] = [file[i] EXCEPT ![field] = value]]
    /\ tamper' = [kind |-> "overwrite", idx |-> i, field |-> field]
    /\ orig' = file
    /\ UNCHANGED <<opened, prevHash, nextUuid, calls, rules, report,
                   exists, engine, profile, resolved,
                   inflight, torn, outcome, pipeline, api>>

RemoveAt(f, i) == SubSeq(f, 1, i - 1) \o SubSeq(f, i + 1, Len(f))

RemoveEntry(i) ==
    /\ tamper = Untampered
    /\ i \in DOMAIN file
    /\ file' = RemoveAt(file, i)
    /\ tamper' = [kind |-> "remove", idx |-> i, field |-> ""]
    /\ orig' = file
    /\ UNCHANGED <<opened, prevHash, nextUuid, calls, rules, report,
                   exists, engine, profile, resolved,
                   inflight, torn, outcome, pipeline, api>>

Orderings(n) ==
    { p \in [1..n -> 1..n] : \A a, b \in 1..n : p[a] = p[b] => a = b }

Reorder(p) ==
    /\ tamper = Untampered
    /\ p \in Orderings(Len(file))
    /\ \E a \in DOMAIN file : p[a] /= a
    /\ file' = [a \in DOMAIN file |-> file[p[a]]]
    /\ tamper' = [kind |-> "reorder", idx |-> 0, field |-> ""]
    /\ orig' = file
    /\ UNCHANGED <<opened, prevHash, nextUuid, calls, rules, report,
                   exists, engine, profile, resolved,
                   inflight, torn, outcome, pipeline, api>>

\* the members an outside party removes from a line, and those it retypes
DropFields == {"id", "previous_hash", "entry_hash", "details"}
RetypeFields == {"previous_hash", "entry_hash"}

Damages ==
    { [kind |-> "invalid_json", field |-> ""], [kind |-> "non_object", field |-> ""] }
    \cup { [kind |-> "drop", field |-> fld] : fld \in DropFields }
    \cup { [kind |-> "retype", field |-> fld] : fld \in RetypeFields }

Damaged(line, dmg) ==
    CASE dmg.kind = "invalid_json" -> InvalidJson
      [] dmg.kind = "non_object"   -> NonObject
      [] dmg.kind = "drop"         -> [k \in DOMAIN line \ {dmg.field} |-> line[k]]
      [] OTHER                     -> [line EXCEPT ![dmg.field] = JsonNumber]

\* line i of the file is cut short, replaced by other JSON, or loses or
\* changes the type of one member
CorruptLine(i, dmg) ==
    /\ tamper = Untampered
    /\ i \in DOMAIN file
    /\ file' = [file EXCEPT ![i] = Damaged(file[i], dmg)]
    /\ tamper' = [kind |-> dmg.kind, idx |-> i, field |-> dmg.field]
    /\ orig' = file
    /\ UNCHANGED <<opened, prevHash, nextUuid, calls, rules, report,
                   exists, engine, profile, resolved,
                   inflight, torn, outcome, pipeline, api>>

(***************************************************************************)
(* core/engine.py.  A rule of the catalogue, as the evaluator sees it on   *)
(* the profile under evaluation: its automation level, its severity, what  *)
(* its native predicate does on that profile (none registered, a returned  *)
(* value, an exception) and what exec() of its textual evaluation_logic    *)
(* leaves in the variable result.                                          *)
(***************************************************************************)
Rule(rule_type, severity, native, logic) ==
    [rule_type |-> rule_type, severity |-> severity, native |-> native, logic |-> logic]

Returns(v) == [kind |-> "returns", value |-> v]
ReturnsList == [kind |-> "returns_list", value |-> ""]
Raises(exc) == [kind |-> "raises", value |-> exc]
NoPredicate == [kind |-> "none", value |-> ""]
Assigns(v) == [kind |-> "assigns", value |-> v]
AssignsList == [kind |-> "assigns_list", value |-> ""]
Unassigned == [kind |-> "unassigned", value |-> ""]

PassingRule == Rule("automated", "medium", Returns("pass"), Assigns("pass"))

TailRules ==
    { Rule("automated", sev, Returns("fail"), Assigns("fail")) :
        sev \in {"critical", "high", "medium", "low", "info"} }
    \cup
    { PassingRule,
      Rule("semi_automated", "high", Returns("pass"), Assigns("fail")),
      Rule("automated", "high", Returns("not_applicable"), Assigns("fail")),
      Rule("automated", "high", Returns("manual_review"), Assigns("pass")),
      Rule("automated", "high", Returns("unknown"), Assigns("pass")),
      Rule("automated", "high", ReturnsList, Assigns("pass")),
      Rule("automated", "high", Raises("TypeError"), Assigns("pass")),
      Rule("automated", "high", Raises("AttributeError"), Assigns("pass")),
      Rule("automated", "high", Raises("AttributeError"), Raises("NameError")),
      Rule("automated", "critical", Raises("ImportError"), Assigns("fail")),
      Rule("automated", "high", Raises("KeyboardInterrupt"), Assigns("pass")),
      Rule("automated", "low", NoPredicate, Assigns("fail")),
      Rule("automated", "high", NoPredicate, Assigns("unknown")),
      Rule("automated", "high", NoPredicate, Raises("SyntaxError")),
      Rule("automated", "high", NoPredicate, Raises("NameError")),
      Rule("automated", "high", NoPredicate, Unassigned),
      Rule("automated", "high", NoPredicate, AssignsList),
      Rule("manual", "critical", Returns("fail"), Assigns("fail")),
      Rule("manual", "high", Raises("KeyboardInterrupt"), AssignsList) }

\* the classes among the above raised ones that derive from Exception
ExceptionSubclasses ==
    {"TypeError", "AttributeError", "ImportError", "NameError", "SyntaxError"}

Str(v) == [kind |-> "str", value |-> v]
Unhashable == [kind |-> "list", value |-> ""]
\* lines 212-218: exec of the textual logic, any Exception gives manual_review
\* (result is preset to "manual_review" at line 214; it would be a pass for a
\* logic that assigns nothing, were the preset the passing verdict)
ExecFallbackPresetPass(rule) ==
    CASE rule.logic.kind = "assigns"      -> Str(rule.logic.value)
      [] rule.logic.kind = "assigns_list" -> Unhashable
      [] rule.logic.kind = "unassigned"   -> Str("pass")
      [] OTHER ->
           IF rule.logic.value \in ExceptionSubclasses
           THEN Str("manual_review") ELSE Raised(rule.logic.value)

ExecFallback(rule) ==
    CASE rule.logic.kind = "assigns"      -> Str(rule.logic.value)
      [] rule.logic.kind = "assigns_list" -> Unhashable
      [] rule.logic.kind = "unassigned"   -> Str("manual_review")
      [] OTHER ->
           IF rule.logic.value \in ExceptionSubclasses
           THEN Str("manual_review") ELSE Raised(rule.logic.value)

\* lines 202-210: ImportError and AttributeError are swallowed, whoever raised
_execute_evaluation(rule) ==
    CASE rule.native.kind = "none"         -> ExecFallback(rule)
      [] rule.native.kind = "returns"      -> Str(rule.native.value)
      [] rule.native.kind = "returns_list" -> Unhashable
      [] OTHER ->
           IF rule.native.value \in {"ImportError", "AttributeError"}
           THEN ExecFallback(rule)
           ELSE Raised(rule.native.value)

RuleVerdict == {"pass", "fail", "not_applicable", "manual_review"}

\* verdict_map.get(verdict, RuleVerdict.MANUAL_REVIEW): hashing a list raises
VerdictMapGet(out) ==
    CASE out.kind = "list" -> Raised("TypeError")
      [] out.value \in RuleVerdict -> Str(out.value)
      [] OTHER -> Str("manual_review")

\* rule.id and rule.requirement_id of the rule at catalogue position i: the
\* catalogue's ids are "RULE-..." and "REQ-..." with one suffix per rule
RuleId(i) == [prefix |-> "RULE", n |-> i]
RequirementId(i) == [prefix |-> "REQ", n |-> i]

RuleResult(id, rule, verdict, details) ==
    [raised |-> "", rule_id |-> RuleId(id), requirement_id |-> RequirementId(id),
     verdict |-> verdict, severity |-> rule.severity, details |-> details]

Propagates(id, rule, exc) ==
    [raised |-> exc, rule_id |-> RuleId(id), requirement_id |-> RequirementId(id),
     verdict |-> "", severity |-> rule.severity, details |-> ""]

\* line 150: rule.rule_type.value == "manual" (no rule would match, were the
\* level compared with the member's name)
ManualOnlyByName(rule) == rule.rule_type = "MANUAL"

ManualOnly(rule) == rule.rule_type = "manual"

_evaluate_rule(id, rule) ==
    IF ManualOnly(rule)
    THEN RuleResult(id, rule, "manual_review", "Requires manual assessment")
    ELSE LET out == _execute_evaluation(rule)
             verdict ==
                 IF out.kind = "raise"
                 THEN (IF out.value \in ExceptionSubclasses
                       THEN Str("manual_review") ELSE out)
                 ELSE out
             mapped == IF verdict.kind = "raise" THEN verdict ELSE VerdictMapGet(verdict)
         IN  IF mapped.kind = "raise"
             THEN Propagates(id, rule, mapped.value)
             ELSE RuleResult(id, rule, mapped.value, "description")

\* lines 92-97 (the else branch takes medium, low and info; a low or info gap
\* would be rolled up with the high ones, were the split made at medium)
GapBucketSplitAtMedium(severity) ==
    CASE severity = "critical" -> "critical"
      [] severity = "medium"   -> "medium"
      [] OTHER                 -> "high"

GapBucket(severity) ==
    CASE severity = "critical" -> "critical"
      [] severity = "high"     -> "high"
      [] OTHER                 -> "medium"

\* lines 82-90 (the gap would name no rule, were the two ids exchanged)
GapIdsExchanged(r) ==
    [rule_id |-> r.requirement_id, requirement_id |-> r.rule_id, severity |-> r.severity]

Gap(r) ==
    [rule_id |-> r.rule_id, requirement_id |-> r.requirement_id, severity |-> r.severity]

EmptyAcc ==
    [raised |-> "", rule_results |-> <<>>,
     critical |-> <<>>, high |-> <<>>, medium |-> <<>>]

\* lines 78-97: the loop over self._rules; an exception leaves the loop
RECURSIVE EvalLoop(_, _, _)
EvalLoop(rs, i, acc) ==
    IF i > Len(rs) THEN acc
    ELSE LET r == _evaluate_rule(i, rs[i])
         IN  IF r.raised /= ""
             THEN [acc EXCEPT !.raised = r.raised]
             ELSE LET a1 == [acc EXCEPT !.rule_results = Append(@, r)]
                      b  == GapBucket(r.severity)
                      a2 == IF r.verdict = "fail"
                            THEN [a1 EXCEPT ![b] = Append(@, Gap(r))]
                            ELSE a1
                  IN  EvalLoop(rs, i + 1, a2)

\* lines 99-102: sum(1 for r in rule_results if r.verdict == ...) (the last
\* result would be left out, were the sum taken over rule_results[:-1])
CountVerdictButLast(results, v) ==
    Cardinality({ i \in DOMAIN results \ {Len(results)} : results[i].verdict = v })

CountVerdict(results, v) ==
    Cardinality({ i \in DOMAIN results : results[i].verdict = v })

\* line 103: the denominator, of the four counts in scope at that line
\* (it would be the total, were every result counted)
ApplicableOfAll(passed, failed, na, manual) == passed + failed + na + manual

Applicable(passed, failed, na, manual) == passed + failed

\* round(x, 1) of x = passed / applicable * 100, as a number of tenths:
\* Python rounds the quotient to the nearest tenth, a tie to the even one
RoundTenths(num, den) ==
    LET q == (num * 1000) \div den
        r == (num * 1000) % den
    IN  CASE 2 * r < den -> q
          [] 2 * r > den -> q + 1
          [] OTHER       -> IF q % 2 = 0 THEN q ELSE q + 1

\* line 104
\* (an evaluation in which nothing applied would score 100.0, were the else
\* value of the conditional the full score)
ScoreFullWhenNothingApplies(passed, applicable) ==
    IF applicable > 0 THEN RoundTenths(passed, applicable) ELSE 1000

Score(passed, applicable) ==
    IF applicable > 0 THEN RoundTenths(passed, applicable) ELSE 0

\* lines 106-111, score in tenths (the first test would read score >= 90
\* alone, were the critical gaps forgotten)
OverallIgnoringGaps(score, critical_gaps) ==
    IF score >= 900 THEN "compliant"
    ELSE IF score >= 600 THEN "partial_compliance"
    ELSE "non_compliant"

Overall(score, critical_gaps) ==
    IF score >= 900 /\ critical_gaps = <<>> THEN "compliant"
    ELSE IF score >= 600 THEN "partial_compliance"
    ELSE "non_compliant"

NoEngine == [state |-> "none", regulation |-> ""]

NoReport ==
    [state |-> "none", raised |-> "", total_rules |-> 0, passed |-> 0, failed |-> 0,
     not_applicable |-> 0, manual_review |-> 0, compliance_score |-> 0,
     rule_results |-> <<>>, critical_gaps |-> <<>>, high_gaps |-> <<>>,
     medium_gaps |-> <<>>, overall_verdict |-> ""]

evaluate(rs) ==
    LET acc     == EvalLoop(rs, 1, EmptyAcc)
        results == acc.rule_results
        passed  == CountVerdict(results, "pass")
        failed  == CountVerdict(results, "fail")
        na      == CountVerdict(results, "not_applicable")
        manual  == CountVerdict(results, "manual_review")
        score   == Score(passed, Applicable(passed, failed, na, manual))
    IN  IF acc.raised /= ""
        THEN [NoReport EXCEPT !.state = "raised", !.raised = acc.raised]
        ELSE [state |-> "returned", raised |-> "",
              total_rules |-> Len(results), passed |-> passed, failed |-> failed,
              not_applicable |-> na, manual_review |-> manual,
              compliance_score |-> score,
              rule_results |-> results, critical_gaps |-> acc.critical,
              high_gaps |-> acc.high, medium_gaps |-> acc.medium,
              overall_verdict |-> Overall(score, acc.critical)]

Evaluate ==
    /\ report' = evaluate(rules)
    /\ UNCHANGED <<file, opened, prevHash, nextUuid, calls, tamper, orig, rules,
                   exists, engine, profile, resolved,
                   inflight, torn, outcome, pipeline, api>>

(***************************************************************************)
(* ComplianceEngine._resolve_field.  A Python value of the profile is a    *)
(* record [t |-> type, s |-> text of a scalar, v |-> items of a dict], the *)
(* items being the function from the keys to their values (empty for a     *)
(* scalar, the text empty for a dict).  A dotted path is the sequence      *)
(* of the segments field_path.split(".") gives: "a.b" is <<"a", "b">>, ""  *)
(* is <<"">>, and "system_profile." + p is <<"system_profile">> \o p.       *)
(***************************************************************************)
PyNone == [t |-> "NoneType", s |-> "None", v |-> <<>>]
PyTrue == [t |-> "bool", s |-> "True", v |-> <<>>]
PyFalse == [t |-> "bool", s |-> "False", v |-> <<>>]
PyDict(d) == [t |-> "dict", s |-> "", v |-> d]

\* lines 224-225: field_path.startswith("system_profile.") and the slice
StripPrefix(field_path) ==
    IF Len(field_path) >= 2 /\ field_path[1] = "system_profile"
    THEN Tail(field_path) ELSE field_path

\* line 234 (a falsy value would be lost, were the test "if not current")
ShortCircuitsOnFalsy(current) ==
    \/ current \in {PyNone, PyFalse}
    \/ current.t = "dict" /\ DOMAIN current.v = {}

ShortCircuits(current) == current = PyNone

\* dict.get(part): None for an absent key
DictGet(d, part) == IF part \in DOMAIN d THEN d[part] ELSE PyNone

\* lines 229-236: the loop over the parts, from part i on
RECURSIVE Walk(_, _, _)
Walk(current, parts, i) ==
    IF i > Len(parts) THEN current
    ELSE IF current.t = "dict"
         THEN LET nxt == DictGet(current.v, parts[i])
              IN  IF ShortCircuits(nxt) THEN PyNone ELSE Walk(nxt, parts, i + 1)
         ELSE PyNone

_resolve_field(data, field_path) == Walk(data, StripPrefix(field_path), 1)

\* what the paths and the profiles are made of
Segments == {"system_profile", "a", "b"}

Paths == UNION { [1..n -> Segments] : n \in 1..MaxSegments }

Leaves == {PyNone, PyTrue, PyFalse}

Mappings(keys, values) ==
    UNION { [ks -> values] : ks \in SUBSET keys }

Profiles ==
    LET inner == { PyDict(d) : d \in Mappings({"a", "b"}, Leaves) }
    IN  { PyDict(d) : d \in Mappings({"system_profile", "a"}, Leaves \cup inner) }

EmptyProfile == PyDict([k \in {} |-> PyNone])

\* one call of _resolve_field(profile, field_path), its result recorded; a
\* second call repeats the first path, as it is or with the prefix added
Resolve(field_path) ==
    /\ Len(resolved) < 2
    /\ resolved /= <<>> =>
          field_path \in {resolved[1].path, <<"system_profile">> \o resolved[1].path}
    /\ resolved' = Append(resolved,
                          [path |-> field_path,
                           value |-> _resolve_field(profile, field_path)])
    /\ UNCHANGED <<file, opened, prevHash, nextUuid, calls, tamper, orig, rules,
                   report, exists, engine, profile,
                   inflight, torn, outcome, pipeline, api>>

(***************************************************************************)
(* rules/eu_ai_act_v1: native predicates of the catalogue, one of each     *)
(* form found in art09.py .. art15.py, on the mapping profile.model_dump() *)
(* gives.  The items of a list are keyed by their positions written as     *)
(* text, so that lists and dicts are values of one kind.                   *)
(***************************************************************************)
PyText(txt) == [t |-> "str", s |-> txt, v |-> <<>>]
PyList(items) == [t |-> "list", s |-> "", v |-> items]

NoItems == <<>>
OneItem(x) == "0" :> x
TwoItems(x, y) == ("0" :> x) @@ ("1" :> y)

\* bool(x)
Truthy(x) ==
    CASE x.t = "bool"     -> x.s = "True"
      [] x.t = "NoneType" -> FALSE
      [] x.t = "str"      -> x.s /= ""
      [] OTHER            -> DOMAIN x.v /= {}

\* the first statement of every predicate:
\* if not profile.get("is_high_risk", False): return "not_applicable"
\* (False would pass the guard, were the test "is None")
NotHighRiskIfNone(prof) == DictGet(prof.v, "is_high_risk") = PyNone

NotHighRisk(prof) ==
    ~Truthy(IF "is_high_risk" \in DOMAIN prof.v THEN prof.v["is_high_risk"] ELSE PyFalse)

\* profile.get(key, default)
ProfileGet(prof, key, default) ==
    IF key \in DOMAIN prof.v THEN prof.v[key] ELSE default

\* the strings c with "risk" in c.lower() or "incident" in c.lower()
MentionsRisk(c) == c.s \in {"risk_event_log", "incident_log"}

\* art09.py lines 242-245
_eval_rms_established(prof) ==
    IF NotHighRisk(prof) THEN Returns("not_applicable")
    ELSE IF Truthy(ProfileGet(prof, "risk_management_system_established", PyFalse))
    THEN Returns("pass") ELSE Returns("fail")

\* art09.py lines 259-263: extra.get on a value that is not a dict
_eval_misuse_risks(prof) ==
    IF NotHighRisk(prof) THEN Returns("not_applicable")
    ELSE LET extra == ProfileGet(prof, "extra", PyDict(<<>>))
         IN  IF extra.t /= "dict" THEN Raises("AttributeError")
             ELSE IF Truthy(ProfileGet(extra, "foreseeable_misuse_documented", PyFalse))
             THEN Returns("pass") ELSE Returns("fail")

\* art09.py lines 265-269: len of a value that has no length
_eval_risk_measures(prof) ==
    IF NotHighRisk(prof) THEN Returns("not_applicable")
    ELSE LET measures == ProfileGet(prof, "risk_mitigation_measures", PyList(NoItems))
         IN  IF measures.t \notin {"list", "dict", "str"} THEN Raises("TypeError")
             ELSE IF Cardinality(DOMAIN measures.v) >= 2
             THEN Returns("pass") ELSE Returns("fail")

\* art10.py lines 258-263
_eval_data_governance(prof) ==
    IF NotHighRisk(prof) THEN Returns("not_applicable")
    ELSE IF ~Truthy(ProfileGet(prof, "uses_training_data", PyFalse))
    THEN Returns("not_applicable")
    ELSE IF Truthy(ProfileGet(prof, "data_governance_practices_documented", PyFalse))
    THEN Returns("pass") ELSE Returns("fail")

\* art10.py lines 295-311
_eval_bias_examination(prof) ==
    IF NotHighRisk(prof) THEN Returns("not_applicable")
    ELSE IF ~Truthy(ProfileGet(prof, "uses_training_data", PyFalse))
    THEN Returns("not_applicable")
    ELSE LET bias == ProfileGet(prof, "bias_examination_report", PyNone)
         IN  IF ~Truthy(bias) THEN Returns("fail")
             ELSE IF /\ bias.t = "dict"
                     /\ Truthy(ProfileGet(bias, "covers_health_safety", PyFalse))
                     /\ Truthy(ProfileGet(bias, "covers_fundamental_rights", PyFalse))
                     /\ Truthy(ProfileGet(bias, "covers_prohibited_discrimination", PyFalse))
             THEN Returns("pass") ELSE Returns("fail")

\* art12.py lines 235-240: iteration over a value that is not iterable
_eval_logging_risk_events(prof) ==
    IF NotHighRisk(prof) THEN Returns("not_applicable")
    ELSE LET caps == ProfileGet(prof, "logging_capabilities", PyList(NoItems))
         IN  IF caps.t \notin {"list", "dict", "str"} THEN Raises("TypeError")
             ELSE IF \E k \in DOMAIN caps.v : MentionsRisk(caps.v[k])
             THEN Returns("pass") ELSE Returns("fail")

\* EVALUATION_FUNCTIONS and get_evaluation_function
eval_fn(name, prof) ==
    CASE name = "_eval_rms_established"     -> _eval_rms_established(prof)
      [] name = "_eval_misuse_risks"        -> _eval_misuse_risks(prof)
      [] name = "_eval_risk_measures"       -> _eval_risk_measures(prof)
      [] name = "_eval_data_governance"     -> _eval_data_governance(prof)
      [] name = "_eval_bias_examination"    -> _eval_bias_examination(prof)
      [] name = "_eval_logging_risk_events" -> _eval_logging_risk_events(prof)

\* exec of the rule's evaluation_logic on the resolved inputs, with no
\* builtins: the texts of the bias and logging rules are not Python
\* ("elif bias covers all:"), those of the misuse and measures rules name
\* extra and len, which are not among the local variables
EvaluationLogic(name, prof) ==
    LET high     == Truthy(_resolve_field(prof, <<"is_high_risk">>))
        training == Truthy(_resolve_field(prof, <<"uses_training_data">>))
        flag(k)  == IF Truthy(_resolve_field(prof, <<k>>))
                    THEN Assigns("pass") ELSE Assigns("fail")
    IN  CASE name \in {"_eval_bias_examination", "_eval_logging_risk_events"}
               -> Raises("SyntaxError")
          [] name \in {"_eval_misuse_risks", "_eval_risk_measures"}
               -> IF ~high THEN Assigns("not_applicable") ELSE Raises("NameError")
          [] name = "_eval_rms_established"
               -> IF ~high THEN Assigns("not_applicable")
                  ELSE flag("risk_management_system_established")
          [] OTHER
               -> IF ~high \/ ~training THEN Assigns("not_applicable")
                  ELSE flag("data_governance_practices_documented")

\* the RULES entries of these predicates: level, severity, inputs_needed
EuAiActRules ==
    << [rule_type |-> "automated", severity |-> "critical",
        predicate |-> "_eval_rms_established",
        inputs_needed |-> {"is_high_risk", "risk_management_system_established"}],
       [rule_type |-> "semi_automated", severity |-> "high",
        predicate |-> "_eval_misuse_risks",
        inputs_needed |-> {"is_high_risk", "extra"}],
       [rule_type |-> "automated", severity |-> "high",
        predicate |-> "_eval_risk_measures",
        inputs_needed |-> {"is_high_risk", "risk_mitigation_measures"}],
       [rule_type |-> "automated", severity |-> "high",
        predicate |-> "_eval_data_governance",
        inputs_needed |-> {"is_high_risk", "uses_training_data",
                           "data_governance_practices_documented"}],
       [rule_type |-> "automated", severity |-> "critical",
        predicate |-> "_eval_bias_examination",
        inputs_needed |-> {"is_high_risk", "uses_training_data",
                           "bias_examination_report"}],
       [rule_type |-> "semi_automated", severity |-> "high",
        predicate |-> "_eval_logging_risk_events",
        inputs_needed |-> {"is_high_risk", "logging_capabilities"}] >>

\* the rule as the evaluator sees it on the profile under evaluation
OnProfile(r, prof) ==
    Rule(r.rule_type, r.severity, eval_fn(r.predicate, prof),
         EvaluationLogic(r.predicate, prof))

\* SystemProfile.model_dump(), restricted to the fields these rules read
Bools == {PyTrue, PyFalse}

BiasReport(a, b, c) ==
    PyDict([k \in {"covers_health_safety", "covers_fundamental_rights",
                   "covers_prohibited_discrimination"} |->
              CASE k = "covers_health_safety" -> a
                [] k = "covers_fundamental_rights" -> b
                [] OTHER -> c])

FieldValues(k) ==
    CASE k = "bias_examination_report" ->
             {PyNone, BiasReport(PyTrue, PyTrue, PyTrue), BiasReport(PyTrue, PyFalse, PyTrue)}
      [] k = "logging_capabilities" ->
             {PyList(NoItems), PyList(OneItem(PyText("risk_event_log"))),
              PyList(OneItem(PyText("audit_trail")))}
      [] k = "risk_mitigation_measures" ->
             {PyList(NoItems), PyList(OneItem(PyText("m1"))),
              PyList(TwoItems(PyText("m1"), PyText("m2")))}
      [] k = "extra" ->
             {PyDict(<<>>), PyDict("foreseeable_misuse_documented" :> PyTrue)}
      [] OTHER -> Bools

ProfileFields ==
    {"is_high_risk", "uses_training_data", "risk_management_system_established",
     "data_governance_practices_documented", "bias_examination_report",
     "logging_capabilities", "risk_mitigation_measures", "extra"}

SerializedProfile(h, u, r, d, b, l, m, e) ==
    PyDict(("is_high_risk" :> h) @@ ("uses_training_data" :> u)
           @@ ("risk_management_system_established" :> r)
           @@ ("data_governance_practices_documented" :> d)
           @@ ("bias_examination_report" :> b)
           @@ ("logging_capabilities" :> l)
           @@ ("risk_mitigation_measures" :> m)
           @@ ("extra" :> e))

SerializedProfiles ==
    { SerializedProfile(h, u, r, d, b, l, m, e) :
        h \in FieldValues("is_high_risk"),
        u \in FieldValues("uses_training_data"),
        r \in FieldValues("risk_management_system_established"),
        d \in FieldValues("data_governance_practices_documented"),
        b \in FieldValues("bias_examination_report"),
        l \in FieldValues("logging_capabilities"),
        m \in FieldValues("risk_mitigation_measures"),
        e \in FieldValues("extra") }

\* a serialized profile with one field absent, or None
WithoutField(prof, k) == PyDict([j \in DOMAIN prof.v \ {k} |-> prof.v[j]])
WithNone(prof, k) == PyDict([prof.v EXCEPT ![k] = PyNone])

(***************************************************************************)
(* The engine constructed on a catalogue: a run of passing rules followed  *)
(* by a few rules of any of the kinds above                                *)
(***************************************************************************)
Tails == UNION { [1..n -> TailRules] : n \in 0..MaxTail }

Catalogue(n, tail) == [i \in 1..n |-> PassingRule] \o tail

EvalInit ==
    /\ file = <<>>
    /\ opened = {}
    /\ prevHash = [l \in Loggers |-> _GENESIS_HASH]
    /\ nextUuid = 0
    /\ calls = <<>>
    /\ tamper = Untampered
    /\ orig = <<>>
    /\ \E n \in 0..MaxPassing, tail \in Tails : rules = Catalogue(n, tail)
    /\ report = NoReport
    /\ exists = FALSE
    /\ engine = [state |-> "constructed", regulation |-> "eu-ai-act-v1"]
    /\ profile = EmptyProfile
    /\ resolved = <<>>
    /\ Quiet

EvalNext == Evaluate

EvalSpec == EvalInit /\ [][EvalNext]_vars

(***************************************************************************)
(* ComplianceEngine(regulation=...), as cli check calls it, then evaluate  *)
(***************************************************************************)
Regulations == {"eu-ai-act-v1", "gdpr-v1", ""}

\* lines 46-64: the one known name loads the catalogue; for any other name
\* the if has no else branch and the three lists stay empty
_load_regulation(regulation, catalogue) ==
    IF regulation = "eu-ai-act-v1" THEN catalogue ELSE <<>>

\* lines 31-44: no statement of __init__ raises on the regulation name
NewEngine(regulation) ==
    /\ engine = NoEngine
    /\ \E n \in 0..MaxPassing, tail \in Tails :
          rules' = _load_regulation(regulation, Catalogue(n, tail))
    /\ engine' = [state |-> "constructed", regulation |-> regulation]
    /\ UNCHANGED <<file, opened, prevHash, nextUuid, calls, tamper, orig, report,
                   exists, profile, resolved,
                   inflight, torn, outcome, pipeline, api>>

\* cli/main.py lines 72-81: evaluate is called on the engine constructed
EvaluateConstructed ==
    /\ engine.state = "constructed"
    /\ Evaluate

EngineInit ==
    /\ file = <<>>
    /\ opened = {}
    /\ prevHash = [l \in Loggers |-> _GENESIS_HASH]
    /\ nextUuid = 0
    /\ calls = <<>>
    /\ tamper = Untampered
    /\ orig = <<>>
    /\ rules = <<>>
    /\ report = NoReport
    /\ exists = FALSE
    /\ engine = NoEngine
    /\ profile = EmptyProfile
    /\ resolved = <<>>
    /\ Quiet

EngineNext ==
    \/ \E regulation \in Regulations : NewEngine(regulation)
    \/ EvaluateConstructed

EngineSpec == EngineInit /\ [][EngineNext]_vars

(***************************************************************************)
(* The engine on the eu-ai-act-v1 catalogue, evaluating a serialized       *)
(* profile: one that validated, or one with a field absent or None         *)
(***************************************************************************)
CatalogueProfiles ==
    SerializedProfiles
      \cup { WithoutField(prof, k) : prof \in SerializedProfiles, k \in ProfileFields }
      \cup { WithNone(prof, k) : prof \in SerializedProfiles, k \in ProfileFields }

CatalogueInit ==
    /\ file = <<>>
    /\ opened = {}
    /\ prevHash = [l \in Loggers |-> _GENESIS_HASH]
    /\ nextUuid = 0
    /\ calls = <<>>
    /\ tamper = Untampered
    /\ orig = <<>>
    /\ profile \in CatalogueProfiles
    /\ rules = [i \in DOMAIN EuAiActRules |-> OnProfile(EuAiActRules[i], profile)]
    /\ report = NoReport
    /\ exists = FALSE
    /\ engine = [state |-> "constructed", regulation |-> "eu-ai-act-v1"]
    /\ resolved = <<>>
    /\ Quiet

CatalogueNext == EvaluateConstructed

CatalogueSpec == CatalogueInit /\ [][CatalogueNext]_vars

(***************************************************************************)
(* api/routers/evaluate.py: the evaluate endpoint and the report store of  *)
(* the API process.  The clock is the whole seconds elapsed, which is what *)
(* strftime("%Y%m%d%H%M%S") keeps of now.                                  *)
(***************************************************************************)
\* engine.py line 115: f"RPT-{self.regulation}-{now.strftime(...)}"
ReportId(regulation, second) == <<"RPT", regulation, second>>

\* the profiles posted: validated ones, differing in two fields
PostedProfiles ==
    { SerializedProfile(h, PyTrue, r, PyTrue, PyNone, PyList(NoItems),
                        PyList(NoItems), PyDict(<<>>)) :
        h \in Bools, r \in Bools }

\* lines 60-79: POST /api/evaluate/ builds an engine, evaluates, stores the
\* report under its id and returns it; a report that was not produced is
\* not stored
PostEvaluate(prof) ==
    /\ Len(api.responses) < MaxEvaluations
    /\ engine' = [state |-> "constructed", regulation |-> "eu-ai-act-v1"]
    /\ profile' = prof
    /\ rules' = [i \in DOMAIN EuAiActRules |-> OnProfile(EuAiActRules[i], prof)]
    /\ report' = evaluate(rules')
    /\ LET made == [id |-> ReportId(engine'.regulation, api.clock), report |-> report']
       IN  api' = IF report'.state = "returned"
                  THEN [api EXCEPT !.store = (made.id :> made) @@ @,
                                   !.responses = Append(@, made)]
                  ELSE api
    /\ UNCHANGED <<file, opened, prevHash, nextUuid, calls, tamper, orig, exists,
                   resolved, inflight, torn, outcome, pipeline>>

\* a second passes
Tick ==
    /\ api.clock < MaxSeconds
    /\ api' = [api EXCEPT !.clock = @ + 1]
    /\ UNCHANGED <<file, opened, prevHash, nextUuid, calls, tamper, orig, rules,
                   report, exists, engine, profile, resolved, inflight, torn,
                   outcome, pipeline>>

\* lines 124-128: GET /api/evaluate/reports
list_reports == { api.store[id] : id \in DOMAIN api.store }

\* lines 131-138: GET /api/evaluate/reports/{report_id}
get_report(report_id) ==
    IF report_id \in DOMAIN api.store THEN api.store[report_id]
    ELSE [id |-> report_id, report |-> NoReport]

(***************************************************************************)
(* The audit log: a fresh log directory with one logger constructed on it  *)
(***************************************************************************)
Init ==
    /\ file = <<>>
    /\ opened = {"L1"}
    /\ prevHash = [l \in Loggers |-> _GENESIS_HASH]
    /\ nextUuid = 0
    /\ calls = <<>>
    /\ tamper = Untampered
    /\ orig = <<>>
    /\ rules = <<>>
    /\ report = NoReport
    /\ exists = FALSE
    /\ engine = NoEngine
    /\ profile = EmptyProfile
    /\ resolved = <<>>
    /\ Quiet

Next ==
    \/ \E l \in Loggers : Construct(l)
    \/ \E l \in Loggers, inp \in LogInputs, now \in Clock : Log(l, inp, now)

Spec == Init /\ [][Next]_vars

\* one writer, then one edit of the file by an outside party
TamperNext ==
    \/ \E inp \in JsonNativeInputs, now \in Clock : Log("L1", inp, now)
    \/ \E i \in DOMAIN file, field \in FieldNames :
          \E value \in OverwriteValues(field, file[i]) : OverwriteField(i, field, value)
    \/ \E i \in DOMAIN file : RemoveEntry(i)
    \/ \E p \in Orderings(Len(file)) : Reorder(p)

TamperSpec == Init /\ [][TamperNext]_vars

\* one writer, then one line of the file damaged
CorruptNext ==
    \/ \E inp \in JsonNativeInputs, now \in Clock : Log("L1", inp, now)
    \/ \E i \in DOMAIN file, dmg \in Damages : CorruptLine(i, dmg)

CorruptSpec == Init /\ [][CorruptNext]_vars

\* one logger, its log() called from two threads, each with the arguments
\* of run_ingestion, at the same or at different times
RaceInputs == { inp \in JsonNativeInputs : inp.action = "ingest" }

RaceNext ==
    \/ \E t \in Threads, inp \in RaceInputs, now \in Clock :
          LogHash(t, "L1", inp, now)
    \/ \E t \in Threads : LogBuild(t, "L1")
    \/ \E t \in Threads : LogAppend(t)
    \/ \E t \in Threads : LogReturn(t, "L1")

RaceSpec == Init /\ [][RaceNext]_vars

\* one orchestrator on a fresh log directory, one run of the pipeline
PipelineNext ==
    \/ RunFullPipeline
    \/ \E n \in Produced : StageWork(n)
    \/ StageRaises
    \/ \E now \in Clock : StageLog(now)
    \/ \E now \in Clock, written \in Written : StageLogFails(now, written)

PipelineSpec == Init /\ [][PipelineNext]_vars

\* the API process: evaluations posted as the seconds pass
ApiNext ==
    \/ \E prof \in PostedProfiles : PostEvaluate(prof)
    \/ Tick

ApiSpec == Init /\ [][ApiNext]_vars

\* one writer, whose appends may fail
FailNext ==
    \/ \E inp \in JsonNativeInputs, now \in Clock : Log("L1", inp, now)
    \/ \E inp \in JsonNativeInputs, now \in Clock, written \in Written :
          LogFails("L1", inp, now, written)

FailSpec == Init /\ [][FailNext]_vars

(***************************************************************************)
(* The resolver on a profile mapping: no log, no engine                    *)
(***************************************************************************)
ResolveInit ==
    /\ file = <<>>
    /\ opened = {}
    /\ prevHash = [l \in Loggers |-> _GENESIS_HASH]
    /\ nextUuid = 0
    /\ calls = <<>>
    /\ tamper = Untampered
    /\ orig = <<>>
    /\ rules = <<>>
    /\ report = NoReport
    /\ exists = FALSE
    /\ engine = NoEngine
    /\ profile \in Profiles
    /\ resolved = <<>>
    /\ Quiet

ResolveNext ==
    \E field_path \in Paths \cup { <<"system_profile">> \o p : p \in Paths } :
        Resolve(field_path)

ResolveSpec == ResolveInit /\ [][ResolveNext]_vars

(***************************************************************************)
(* Properties of the audit chain                                           *)
(***************************************************************************)
Valid == [is_valid |-> TRUE, errors |-> <<>>]

Loaded == load_from_file(file)

OrigValid ==
    /\ verify_chain(load_from_file(orig)).is_valid
    /\ verify(orig).is_valid

\* the (timestamp, target_ids, details) parts of a digest's pre-image
HashedParts(h) == <<h[2], h[4], h[5]>>

\* C1: after N >= 1 calls of log() through the logger of a fresh log
\* directory, whatever the actions, target_ids and details, both verification
\* paths report the persisted log valid with no error, and the timestamp
\* text and canonical target_ids / details hashed at append time are the
\* ones recomputed from the persisted fields.
C1_RoundTripValid ==
    (opened = {"L1"} /\ Len(file) >= 1) =>
        /\ verify_chain(Loaded) = Valid
        /\ verify(file) = Valid
        /\ Len(Loaded) = Len(calls)
        /\ \A i \in DOMAIN calls :
              /\ HashedParts(calls[i].entry.entry_hash) = HashedParts(ExpectedHash(Loaded[i]))
              /\ HashedParts(calls[i].entry.entry_hash) = HashedParts(RawComputed(file[i]))

\* C2: on a valid chain, overwriting the details of one entry without
\* recomputing its hash makes verification invalid with exactly one error,
\* the hash mismatch of that entry; no other entry is flagged.
C2_DetailsTamperFlagsThatEntryOnly ==
    (tamper.kind = "overwrite" /\ tamper.field = "details" /\ OrigValid) =>
        /\ verify_chain(Loaded) =
              [is_valid |-> FALSE,
               errors |-> <<[kind |-> "hash_mismatch", id |-> orig[tamper.idx].id]>>]
        /\ verify(file) =
              [is_valid |-> FALSE,
               errors |-> <<[kind |-> "entry_hash_mismatch", id |-> orig[tamper.idx].id]>>]

C2_Witness ==
    /\ tamper.kind = "overwrite" /\ tamper.field = "details"
    /\ OrigValid
    /\ Len(file) = 3 /\ tamper.idx = 2
    /\ Len(verify_chain(Loaded).errors) = 1

CallsOf(l) == SelectSeq(calls, LAMBDA c : c.logger = l)

\* C3: the first entry returned on a freshly created log has the genesis
\* sentinel as previous_hash and a non-empty entry_hash; every later entry
\* returned by the same logger has as previous_hash the entry_hash of the
\* entry that logger appended just before, and a different entry_hash.
C3_GenesisThenLinked ==
    /\ calls /= <<>> =>
          /\ calls[1].entry.previous_hash = _GENESIS_HASH
          /\ calls[1].entry.entry_hash /= EmptyStr
    /\ \A l \in Loggers :
          LET mine == CallsOf(l)
          IN  \A i \in 2..Len(mine) :
                 /\ mine[i].entry.previous_hash = mine[i - 1].entry.entry_hash
                 /\ mine[i].entry.entry_hash /= mine[i - 1].entry.entry_hash

C3_Witness ==
    /\ Len(CallsOf("L1")) = 3
    /\ calls[1].entry.previous_hash = _GENESIS_HASH
    /\ calls[3].entry.previous_hash = calls[2].entry.entry_hash

\* C4: with all appends serialized, through one or several AuditLogger
\* instances open on the directory, every persisted entry's previous_hash is
\* the entry_hash of the preceding line (genesis for the first line).
C4_SerializedAppendsLinked ==
    \A i \in DOMAIN file :
        file[i].previous_hash =
            (IF i = 1 THEN _GENESIS_HASH ELSE file[i - 1].entry_hash)

\* C5: once the file holds an entry, every further append, whichever logger
\* makes it, uses as previous_hash the entry_hash of the last entry
\* load_from_file returns for the file, never the genesis sentinel.
C5_NeverBackToEmpty ==
    [][ (file /= <<>> /\ Len(file') = Len(file) + 1) =>
          /\ file'[Len(file')].previous_hash = Loaded[Len(Loaded)].entry_hash
          /\ file'[Len(file')].previous_hash /= _GENESIS_HASH ]_vars

\* C6: on a valid persisted log, changing the value of any one persisted
\* field of an entry without recomputing hashes makes chain verification
\* (by at least one of the two verification paths) report the log invalid.
C6_AnyFieldChangeDetected ==
    (tamper.kind = "overwrite" /\ OrigValid) =>
        \/ ~verify_chain(Loaded).is_valid
        \/ ~verify(file).is_valid

\* C7: removing any entry (first, middle or last) of a valid persisted log,
\* or reordering its entries, makes chain verification (by at least one of
\* the two verification paths) report the log invalid.
C7_RemovalOrReorderDetected ==
    (tamper.kind \in {"remove", "reorder"} /\ OrigValid) =>
        \/ ~verify_chain(Loaded).is_valid
        \/ ~verify(file).is_valid

(***************************************************************************)
(* Properties of the evaluator                                             *)
(***************************************************************************)
Abs(x) == IF x < 0 THEN -x ELSE x

\* s tenths is num / den * 100 rounded to one decimal, ties to even
IsRoundedPercent(s, num, den) ==
    /\ 2 * Abs(s * den - 1000 * num) <= den
    /\ 2 * Abs(s * den - 1000 * num) = den => s % 2 = 0

\* C8: in every report evaluate() returns, compliance_score is
\* round(passed / (passed + failed) * 100, 1) when passed + failed > 0 and 0
\* otherwise, passed and failed being the numbers of pass and fail results;
\* not_applicable and manual_review results are not in the denominator.
C8_ScoreFormula ==
    report.state = "returned" =>
        /\ report.passed = CountVerdict(report.rule_results, "pass")
        /\ report.failed = CountVerdict(report.rule_results, "fail")
        /\ IF report.passed + report.failed > 0
           THEN IsRoundedPercent(report.compliance_score, report.passed,
                                 report.passed + report.failed)
           ELSE report.compliance_score = 0

C8_Witness ==
    /\ report.state = "returned"
    /\ report.passed > 0 /\ report.failed > 0
    /\ report.not_applicable > 0
    /\ report.compliance_score % 10 /= 0

FailedCritical(rep) ==
    { i \in DOMAIN rep.rule_results :
        rep.rule_results[i].verdict = "fail" /\ rep.rule_results[i].severity = "critical" }

\* C9: overall_verdict is compliant exactly when score >= 90 and there is no
\* critical gap, otherwise partial_compliance exactly when score >= 60,
\* otherwise non_compliant; a critical gap being a failed rule of severity
\* critical, a report with one is never compliant.
C9_VerdictDerivation ==
    report.state = "returned" =>
        LET s    == report.compliance_score
            top  == s >= 900 /\ report.critical_gaps = <<>>
        IN  /\ (report.overall_verdict = "compliant") <=> top
            /\ (report.overall_verdict = "partial_compliance") <=> (~top /\ s >= 600)
            /\ (report.overall_verdict = "non_compliant") <=> (~top /\ s < 600)
            /\ (report.critical_gaps /= <<>>) <=> (FailedCritical(report) /= {})
            /\ FailedCritical(report) /= {} => report.overall_verdict /= "compliant"

C9_Witness ==
    /\ report.state = "returned"
    /\ report.compliance_score >= 900
    /\ report.critical_gaps /= <<>>
    /\ report.overall_verdict = "partial_compliance"

\* the catalogue with rule i's predicate returning v instead of raising
WithReturn(rs, i, v) == [rs EXCEPT ![i].native = Returns(v)]

\* C10: if a rule's native predicate raises an exception of any type during
\* evaluate(), that rule's result is manual_review and the verdicts of all
\* other rules are what they are when that predicate does not raise.
C10_RaisingPredicateIsManualReview ==
    \A i \in DOMAIN rules :
        LET base == evaluate(WithReturn(rules, i, "pass"))
        IN  ( /\ report.state /= "none"
              /\ rules[i].rule_type /= "manual"
              /\ rules[i].native.kind = "raises"
              /\ base.state = "returned" ) =>
                /\ report.state = "returned"
                /\ report.rule_results[i].verdict = "manual_review"
                /\ \A j \in DOMAIN rules \ {i} :
                      report.rule_results[j].verdict = base.rule_results[j].verdict

OverallVerdicts == {"compliant", "partial_compliance", "non_compliant"}

\* C11: evaluate() returns a report carrying an overall verdict and a score
\* for every catalogue and profile: whatever a single rule does (raise, return
\* any value from its predicate, leave any value in result), evaluate() does
\* not raise, the report has one result per rule, and every result's verdict
\* is one of pass, fail, not_applicable, manual_review.
C11_EvaluateAlwaysReports ==
    report.state /= "none" =>
        /\ report.state = "returned"
        /\ report.overall_verdict \in OverallVerdicts
        /\ report.compliance_score \in 0..1000
        /\ Len(report.rule_results) = Len(rules)
        /\ \A i \in DOMAIN report.rule_results :
              report.rule_results[i].verdict \in RuleVerdict

\* what the textual logic of a rule decides: the verdict it assigns, and
\* manual_review for an error, no assignment or an unrecognized string
LogicVerdict(rule) ==
    IF rule.logic.kind = "assigns" /\ rule.logic.value \in RuleVerdict
    THEN rule.logic.value
    ELSE "manual_review"

\* the exec() of the logic ends with a string in result or with an exception
\* derived from Exception
LogicErrsOrLeavesString(rule) ==
    \/ rule.logic.kind \in {"assigns", "unassigned"}
    \/ rule.logic.kind = "raises" /\ rule.logic.value \in ExceptionSubclasses

FallbackRules ==
    { i \in DOMAIN rules :
        /\ rules[i].rule_type /= "manual"
        /\ rules[i].native = NoPredicate
        /\ LogicErrsOrLeavesString(rules[i]) }

\* C12: a non-manual rule with no registered native predicate gets the
\* verdict its textual evaluation_logic assigns; an execution error (syntax
\* error, missing variable, exception), a logic that never assigns result and
\* an outcome string outside the four verdicts each give manual_review, and
\* none of these makes the rule's evaluation raise.
C12_FallbackDegradesToManualReview ==
    \A i \in FallbackRules :
        /\ _evaluate_rule(i, rules[i]).raised = ""
        /\ _evaluate_rule(i, rules[i]).verdict = LogicVerdict(rules[i])
        /\ report.state = "returned" =>
               report.rule_results[i].verdict = LogicVerdict(rules[i])

C12_Witness ==
    /\ report.state = "returned"
    /\ Len(rules) = 2
    /\ FallbackRules = {1, 2}
    /\ rules[1].logic.kind = "raises"
    /\ rules[2].logic \in {Unassigned, Assigns("unknown")}
    /\ report.manual_review = 2

\* rule with the predicate and the textual logic of another rule
WithBehaviour(rule, other) ==
    [rule EXCEPT !.native = other.native, !.logic = other.logic]

ManualResult(i, rule) ==
    RuleResult(i, rule, "manual_review", "Requires manual assessment")

\* C13: for a rule whose automation level is manual, _evaluate_rule returns
\* manual_review with the fixed detail text whatever the profile, and neither
\* its native predicate nor its textual logic is executed: the result is the
\* same whatever these would return, assign or raise.
C13_ManualRulesNeverExecute ==
    \A i \in DOMAIN rules :
        rules[i].rule_type = "manual" =>
            /\ _evaluate_rule(i, rules[i]) = ManualResult(i, rules[i])
            /\ \A other \in TailRules :
                  _evaluate_rule(i, WithBehaviour(rules[i], other)) = ManualResult(i, rules[i])
            /\ report.state = "returned" =>
                  report.rule_results[i] = ManualResult(i, rules[i])

C13_Witness ==
    /\ report.state = "returned"
    /\ \E i \in DOMAIN rules :
          /\ rules[i] = Rule("manual", "high", Raises("KeyboardInterrupt"), AssignsList)
          /\ report.rule_results[i].verdict = "manual_review"
          /\ report.rule_results[i].details = "Requires manual assessment"
    /\ \E j \in DOMAIN rules :
          /\ rules[j] = Rule("manual", "critical", Returns("fail"), Assigns("fail"))
          /\ report.critical_gaps = <<>>

\* the positions in a bucket of the gaps made for rule id
GapsFor(bucket, id) == { k \in DOMAIN bucket : bucket[k].rule_id = id }

\* C14: evaluate() creates exactly one gap for each rule result whose verdict
\* is fail and none for a result of any other verdict; the gap of a failed
\* rule is in critical_gaps iff its severity is critical, in high_gaps iff it
\* is high, and in medium_gaps for medium, low and info: one bucket of three.
C14_OneGapPerFailInItsBucket ==
    report.state = "returned" =>
        \A i \in DOMAIN report.rule_results :
            LET r   == report.rule_results[i]
                inC == Cardinality(GapsFor(report.critical_gaps, r.rule_id))
                inH == Cardinality(GapsFor(report.high_gaps, r.rule_id))
                inM == Cardinality(GapsFor(report.medium_gaps, r.rule_id))
            IN  /\ r.severity = rules[i].severity
                /\ inC + inH + inM = (IF r.verdict = "fail" THEN 1 ELSE 0)
                /\ r.verdict = "fail" =>
                      /\ inC = 1 <=> r.severity = "critical"
                      /\ inH = 1 <=> r.severity = "high"
                      /\ inM = 1 <=> r.severity \in {"medium", "low", "info"}

C14_Witness ==
    /\ report.state = "returned"
    /\ Len(report.medium_gaps) = 2
    /\ report.medium_gaps[1].severity = "low"
    /\ report.medium_gaps[2].severity = "info"
    /\ report.passed > 0
    /\ report.critical_gaps = <<>> /\ report.high_gaps = <<>>

\* C15: field resolution is repeatable and prefix-tolerant: on an unchanged
\* profile, two calls with the same path return the same value, and the
\* path with "system_profile." put in front resolves to what the path
\* itself resolves to, for every profile and every dotted path.
C15_RepeatableAndPrefixTolerant ==
    /\ \A i, j \in DOMAIN resolved :
          resolved[i].path = resolved[j].path => resolved[i].value = resolved[j].value
    /\ \A i, j \in DOMAIN resolved :
          resolved[j].path = <<"system_profile">> \o resolved[i].path =>
              resolved[j].value = resolved[i].value

\* the value stored in data under the first k segments of parts
RECURSIVE At(_, _, _)
At(data, parts, k) ==
    IF k = 0 THEN data ELSE At(data, parts, k - 1).v[parts[k]]

\* each of the first k segments is a key of a mapping, with a non-null value
RECURSIVE Reaches(_, _, _)
Reaches(data, parts, k) ==
    \/ k = 0
    \/ /\ Reaches(data, parts, k - 1)
       /\ At(data, parts, k - 1).t = "dict"
       /\ parts[k] \in DOMAIN At(data, parts, k - 1).v
       /\ At(data, parts, k) /= PyNone

\* C16: _resolve_field does not raise; it returns null when a segment's key
\* is absent, when an intermediate value is not a mapping, or when a value
\* reached is null; otherwise it returns the stored value unchanged, falsy
\* values such as False and the empty mapping included.
C16_NullOrStoredValue ==
    \A i \in DOMAIN resolved :
        LET parts == StripPrefix(resolved[i].path)
        IN  resolved[i].value =
               (IF Reaches(profile, parts, Len(parts))
                THEN At(profile, parts, Len(parts))
                ELSE PyNone)

C16_Witness ==
    /\ Len(resolved) = 2
    /\ resolved[1].path = <<"a", "b">>
    /\ resolved[1].value = PyFalse
    /\ resolved[2].path = <<"system_profile", "a", "b">>
    /\ resolved[2].value = PyFalse
    /\ _resolve_field(profile, <<"a", "a">>) = PyNone
    /\ _resolve_field(profile, <<"system_profile">>) = PyNone
    /\ _resolve_field(profile, <<"a", "b", "a">>) = PyNone

\* a (is_valid, errors) pair, as opposed to an exception
Structured(res) == "is_valid" \in DOMAIN res

\* C17: verification of an existing, readable log file returns a structured
\* (is_valid, errors) result and does not raise, whatever the shape of the
\* data: lines that are not JSON, JSON lines that are not objects, objects
\* with missing or wrongly typed members; for AuditChainVerifier.verify and
\* for the load_from_file + verify_chain path of the verify endpoint.
C17_VerificationNeverRaises ==
    exists =>
        /\ Structured(AuditChainVerifier_verify(exists, file))
        /\ Structured(verify_audit_chain(exists, file))

\* C18: a log that does not yet exist is valid, empty history:
\* load_from_file returns the empty list without raising, and verification
\* of that log (verify_chain over the loaded entries, the verify endpoint,
\* AuditChainVerifier.verify on the directory) reports valid with no error.
C18_MissingLogIsValidEmpty ==
    ~exists =>
        /\ load_from_file(file) = <<>>
        /\ verify_chain(load_from_file(file)) = Valid
        /\ verify_audit_chain(exists, file) = Valid
        /\ AuditChainVerifier_verify(exists, file) = Valid

\* C19: load_from_file on a log with malformed lines returns exactly the
\* entries of the well-formed lines, in file order, and does not raise; the
\* lines after a malformed line are read as they are without it.
C19_LoadSkipsMalformedLines ==
    LET wellFormed == SelectSeq(file, LineValidates)
    IN  /\ Loaded = [k \in DOMAIN wellFormed |-> model_validate_json(wellFormed[k])]
        /\ (tamper.kind /= "none" /\ ~LineValidates(file[tamper.idx])) =>
               Loaded = RemoveAt(load_from_file(orig), tamper.idx)
        /\ (tamper.kind /= "none" /\ LineValidates(file[tamper.idx])) =>
               /\ Len(Loaded) = Len(orig)
               /\ \A k \in DOMAIN orig \ {tamper.idx} : Loaded[k] = load_from_file(orig)[k]

C19_Witness ==
    /\ Len(file) = 3
    /\ tamper.idx = 1
    /\ IsInvalidJson(file[1])
    /\ Len(Loaded) = 2
    /\ Loaded[1].id = 2 /\ Loaded[2].id = 3

\* C20: constructing a ComplianceEngine with a regulation name for which no
\* catalogue exists surfaces a configuration error to the caller at
\* construction time: no engine is constructed for such a name, and
\* evaluate() never produces a report against a catalogue that did not load.
C20_UnknownRegulationIsConfigError ==
    (engine.state /= "none" /\ engine.regulation /= "eu-ai-act-v1") =>
        /\ engine.state = "config_error"
        /\ report.state = "none"

\* every rule of the catalogue evaluates to not_applicable or manual_review
NothingApplies ==
    \A i \in DOMAIN rules :
        /\ _evaluate_rule(i, rules[i]).raised = ""
        /\ _evaluate_rule(i, rules[i]).verdict \in {"not_applicable", "manual_review"}

\* C21: whenever no rule result is pass or fail (an empty catalogue, or every
\* rule not_applicable or manual_review), evaluate() does not raise and the
\* report has compliance_score 0 and overall verdict non_compliant; with zero
\* rules, total_rules is 0 and the three gap buckets are empty.
C21_NothingApplicableScoresZero ==
    (report.state /= "none" /\ NothingApplies) =>
        /\ report.state = "returned"
        /\ report.passed = 0 /\ report.failed = 0
        /\ report.compliance_score = 0
        /\ report.overall_verdict = "non_compliant"
        /\ rules = <<>> =>
              /\ report.total_rules = 0
              /\ report.rule_results = <<>>
              /\ report.critical_gaps = <<>>
              /\ report.high_gaps = <<>>
              /\ report.medium_gaps = <<>>

C21_Witness ==
    /\ report.state = "returned"
    /\ Len(rules) = 2
    /\ report.not_applicable = 1 /\ report.manual_review = 1
    /\ report.compliance_score = 0
    /\ report.overall_verdict = "non_compliant"

\* the fields of rule i's inputs_needed that the profile lacks or holds None
LackingInputs(i) ==
    { k \in EuAiActRules[i].inputs_needed : DictGet(profile.v, k) = PyNone }

\* C22: on a profile whose is_high_risk is False, whatever its other fields
\* are, every catalogue rule (each predicate starts with the is_high_risk
\* guard) gets the verdict not_applicable, and the report counts them all
C22_NotHighRiskAllNotApplicable ==
    (report.state /= "none" /\ DictGet(profile.v, "is_high_risk") = PyFalse) =>
        /\ report.state = "returned"
        /\ \A i \in DOMAIN rules :
              /\ eval_fn(EuAiActRules[i].predicate, profile) = Returns("not_applicable")
              /\ report.rule_results[i].verdict = "not_applicable"
        /\ report.not_applicable = Len(EuAiActRules)

C22_Witness ==
    /\ report.state = "returned"
    /\ DictGet(profile.v, "is_high_risk") = PyFalse
    /\ DictGet(profile.v, "bias_examination_report") = PyNone
    /\ "extra" \notin DOMAIN profile.v
    /\ DictGet(profile.v, "risk_management_system_established") = PyTrue
    /\ report.not_applicable = Len(EuAiActRules)

\* C23: a native predicate applied to a serialized profile in which one of
\* its rule's input fields is missing or None returns not_applicable and
\* does not raise
C23_LackingInputNotApplicable ==
    report.state /= "none" =>
        \A i \in DOMAIN EuAiActRules :
            LackingInputs(i) /= {} =>
                eval_fn(EuAiActRules[i].predicate, profile) = Returns("not_applicable")

\* the gaps of the report, whatever their bucket
AllGaps == report.critical_gaps \o report.high_gaps \o report.medium_gaps

\* C24: a returned report holds one result per catalogue rule, in catalogue
\* order, with that rule's id and requirement id, total_rules is the size of
\* the catalogue, and every gap names a catalogue rule whose result is fail
C24_ResultsFollowCatalogue ==
    report.state = "returned" =>
        /\ Len(report.rule_results) = Len(rules)
        /\ report.total_rules = Len(rules)
        /\ \A i \in DOMAIN rules :
              /\ report.rule_results[i].rule_id = RuleId(i)
              /\ report.rule_results[i].requirement_id = RequirementId(i)
        /\ \A k \in DOMAIN AllGaps :
              \E i \in DOMAIN rules :
                  /\ AllGaps[k].rule_id = RuleId(i)
                  /\ report.rule_results[i].rule_id = RuleId(i)
                  /\ report.rule_results[i].verdict = "fail"

C24_Witness ==
    /\ report.state = "returned"
    /\ Len(rules) >= 3
    /\ report.critical_gaps /= <<>>
    /\ report.medium_gaps /= <<>>
    /\ report.rule_results[1].verdict = "pass"
    /\ report.rule_results[Len(rules)].verdict = "fail"

\* C30: in a returned report the four counts partition the results (their
\* sum is total_rules, which is the number of rule results) and the three
\* gap buckets together hold as many gaps as there are failed results
C30_CountsPartitionResults ==
    report.state = "returned" =>
        /\ report.passed + report.failed + report.not_applicable
              + report.manual_review = report.total_rules
        /\ report.total_rules = Len(report.rule_results)
        /\ Len(report.critical_gaps) + Len(report.high_gaps)
              + Len(report.medium_gaps) = report.failed

C30_Witness ==
    /\ report.state = "returned"
    /\ report.total_rules = 4
    /\ report.passed = 2
    /\ report.failed = 1
    /\ report.not_applicable = 1
    /\ Len(report.high_gaps) = 1

\* C29: when the append inside log() raises, the exception reaches the
\* caller and no entry is returned, the logger's pointer is what it was
\* before the call, and the next append that succeeds links to the last
\* entry persisted before the failure
C29_FailedAppendLeavesPointer ==
    /\ outcome.kind = "raised" =>
          /\ Len(calls) = outcome.returned
          /\ \A l \in opened : prevHash[l] = outcome.pointer
    /\ (outcome.kind = "returned" /\ outcome.after = "raised") =>
          LET entry == calls[Len(calls)].entry
          IN  /\ entry.previous_hash = outcome.pointer
              /\ entry.previous_hash =
                    IF Len(calls) = 1 THEN _GENESIS_HASH
                    ELSE calls[Len(calls) - 1].entry.entry_hash

C29_Witness ==
    /\ outcome.kind = "returned"
    /\ outcome.after = "raised"
    /\ Len(calls) = 2
    /\ Len(file) = 2
    /\ IsInvalidJson(file[2])
    /\ calls[2].entry.previous_hash = calls[1].entry.entry_hash

\* every persisted entry is hashed over the predecessor it names (its call
\* read one value of the pointer on lines 87 and 100), and two of them name
\* the same predecessor: their calls read the same value
SamePredecessor(entries) ==
    /\ \A k \in DOMAIN entries : entries[k].entry_hash = ExpectedHash(entries[k])
    /\ \E i, j \in DOMAIN entries :
          i < j /\ entries[i].previous_hash = entries[j].previous_hash

HasError(res, kind) == \E k \in DOMAIN res.errors : res.errors[k].kind = kind

\* C25: log() calls that overlap can read the same last hash and persist two
\* entries with identical previous_hash (the witness); whenever the file
\* holds two such entries, each call having read one value of the pointer,
\* chain verification reports a linkage error
C25_SamePredecessorBreaksLinkage ==
    SamePredecessor(Loaded) =>
        /\ ~verify_chain(Loaded).is_valid
        /\ HasError(verify_chain(Loaded), "chain_broken")
        /\ Structured(verify(file))
        /\ ~verify(file).is_valid
        /\ HasError(verify(file), "previous_hash_mismatch")

C25_Witness ==
    /\ \A t \in Threads : inflight[t].pc = "idle"
    /\ Len(calls) = 2
    /\ Len(Loaded) = 2
    /\ calls[1].entry.previous_hash = _GENESIS_HASH
    /\ calls[2].entry.previous_hash = _GENESIS_HASH
    /\ SamePredecessor(Loaded)
    /\ HasError(verify_chain(Loaded), "chain_broken")

\* C28: on every existing log file the two verification paths return the
\* same is_valid: AuditChainVerifier.verify(log_dir) on the raw lines, and
\* AuditLogger.verify_chain over what load_from_file returns
C28_VerificationPathsAgree ==
    exists =>
        /\ Structured(AuditChainVerifier_verify(exists, file))
        /\ AuditChainVerifier_verify(exists, file).is_valid
             = verify_chain(load_from_file(file)).is_valid

\* the stages whose entry the run has written
StagesLogged ==
    IF pipeline.state = "returned" THEN Len(Stages) ELSE pipeline.stage - 1

\* C26: the log of a pipeline run holds one entry per stage finished, in
\* the order ingest, parse, extract, formalize, codegen, each carrying what
\* its stage's work produced; a stage that raised and the stages after it
\* have no entry, and the entries written form a valid chain
C26_OneEntryPerFinishedStage ==
    pipeline.state /= "idle" =>
        /\ Len(Loaded) = StagesLogged
        /\ pipeline.state = "returned" => Len(Loaded) = Len(Stages)
        /\ \A k \in DOMAIN Loaded :
              /\ Loaded[k].action = Stages[k].action
              /\ Loaded[k].stage = Stages[k].stage
              /\ k \in DOMAIN pipeline.results
              /\ Loaded[k].details = StageInput(k, pipeline.results[k]).details
        /\ verify_chain(Loaded) = Valid

C26_Witness ==
    /\ pipeline.state = "raised"
    /\ pipeline.stage = 4
    /\ Len(Loaded) = 3
    /\ Loaded[3].action = "extract"
    /\ verify_chain(Loaded) = Valid

\* C27: every report POST /api/evaluate/ returned is stored and stays
\* retrievable: the list of reports holds one report per evaluation
\* performed, and the report fetched by id is the report that was returned
\* with that id
C27_ReportsStayRetrievable ==
    /\ Cardinality(list_reports) = Len(api.responses)
    /\ \A k \in DOMAIN api.responses :
          get_report(api.responses[k].id) = api.responses[k]

====
